---- MODULE Spec2Model ----
(***************************************************************************)
(* Model of lib/server.js (class DataServer): the connection registry, the *)
(* per-client bitfinex proxy sessions, the inbound command dispatcher and  *)
(* the forwarding of upstream messages to the owning client.               *)
(*                                                                         *)
(* One action is one turn of the node event loop: a handler of server.js   *)
(* run to completion, or a step of the environment (a socket starting to   *)
(* close, an upstream session changing state).                             *)
(***************************************************************************)
EXTENDS Integers, Sequences, FiniteSets

\* ------------------------------------------------------------------------
\* Bounds of the model
\* ------------------------------------------------------------------------
\* sockets the listening server accepts over a run
MaxConns == 2
\* frames recorded per socket
MaxSent == 2
\* largest reading of the clock consulted by nonce()
MaxNow == 2
\* frames written to one socket where the order of the frames is examined
MaxOrder == 3

\* ------------------------------------------------------------------------
\* JavaScript values
\* ------------------------------------------------------------------------
Undefined == [t |-> "undefined"]
Null == [t |-> "null"]
Bool(b) == [t |-> "boolean", v |-> b]
Num(n) == [t |-> "number", v |-> n]
Str(s) == [t |-> "string", v |-> s]
Arr(s) == [t |-> "array", v |-> s]
\* an object literal: the sequence of its <<key, value>> members
Obj(m) == [t |-> "object", v |-> m]

\* if (x): undefined, null, false, 0 and '' are falsy
Truthy(x) ==
  CASE x.t = "undefined" -> FALSE
    [] x.t = "null" -> FALSE
    [] x.t = "boolean" -> x.v
    [] x.t = "number" -> x.v # 0
    [] x.t = "string" -> x.v # ""
    [] OTHER -> TRUE

\* decimal spelling of the one-digit numbers the model uses
Digits == <<"0", "1", "2", "3", "4", "5", "6", "7", "8", "9">>

NumberToString(n) == Digits[n + 1]

StringToNumber(s) == CHOOSE n \in 0..9 : Digits[n + 1] = s

\* ------------------------------------------------------------------------
\* JSON text, as the sequence of its lexical tokens
\* ------------------------------------------------------------------------
P(c) == [k |-> "punct", c |-> c]
N(c) == [k |-> "number", c |-> c]
S(c) == [k |-> "string", c |-> c]
L(c) == [k |-> "literal", c |-> c]
\* characters that start no JSON token
Junk == [k |-> "junk", c |-> "?"]

ParseFail == [ok |-> FALSE, val |-> Undefined, next |-> 0]

RECURSIVE ParseValue(_, _)
RECURSIVE ParseElements(_, _, _)
RECURSIVE ParseMembers(_, _, _)

\* elements of an array after '[' or ',': value (',' value)* ']'
ParseElements(toks, i, acc) ==
  LET r == ParseValue(toks, i) IN
  IF ~r.ok \/ r.next > Len(toks) THEN ParseFail
  ELSE IF toks[r.next] = P("]")
       THEN [ok |-> TRUE, val |-> Arr(Append(acc, r.val)), next |-> r.next + 1]
  ELSE IF toks[r.next] = P(",")
       THEN ParseElements(toks, r.next + 1, Append(acc, r.val))
  ELSE ParseFail

\* members of an object after '{' or ',': string ':' value (',' ...)* '}'
ParseMembers(toks, i, acc) ==
  IF i + 1 > Len(toks) \/ toks[i].k # "string" \/ toks[i + 1] # P(":")
  THEN ParseFail
  ELSE LET r == ParseValue(toks, i + 2)
           m == Append(acc, <<toks[i].c, r.val>>)
       IN IF ~r.ok \/ r.next > Len(toks) THEN ParseFail
          ELSE IF toks[r.next] = P("}")
               THEN [ok |-> TRUE, val |-> Obj(m), next |-> r.next + 1]
          ELSE IF toks[r.next] = P(",")
               THEN ParseMembers(toks, r.next + 1, m)
          ELSE ParseFail

ParseValue(toks, i) ==
  IF i > Len(toks) THEN ParseFail
  ELSE LET tok == toks[i] IN
    CASE tok.k = "number" ->
           [ok |-> TRUE, val |-> Num(StringToNumber(tok.c)), next |-> i + 1]
      [] tok.k = "string" ->
           [ok |-> TRUE, val |-> Str(tok.c), next |-> i + 1]
      [] tok.k = "literal" ->
           [ok |-> TRUE,
            val |-> IF tok.c = "null" THEN Null ELSE Bool(tok.c = "true"),
            next |-> i + 1]
      [] tok = P("[") ->
           IF i + 1 <= Len(toks) /\ toks[i + 1] = P("]")
           THEN [ok |-> TRUE, val |-> Arr(<<>>), next |-> i + 2]
           ELSE ParseElements(toks, i + 1, <<>>)
      [] tok = P("{") ->
           IF i + 1 <= Len(toks) /\ toks[i + 1] = P("}")
           THEN [ok |-> TRUE, val |-> Obj(<<>>), next |-> i + 2]
           ELSE ParseMembers(toks, i + 1, <<>>)
      [] OTHER -> ParseFail

\* JSON.parse(text): ok = FALSE stands for the SyntaxError it throws
JSONParse(text) ==
  LET r == ParseValue(text, 1) IN
  IF r.ok /\ r.next = Len(text) + 1
  THEN [ok |-> TRUE, val |-> r.val]
  ELSE [ok |-> FALSE, val |-> Undefined]

RECURSIVE JSONStringify(_)
RECURSIVE StringifyElements(_, _)
RECURSIVE StringifyMembers(_, _, _)

StringifyElements(s, i) ==
  IF i > Len(s) THEN <<>>
  ELSE (IF i > 1 THEN <<P(",")>> ELSE <<>>)
       \o (IF s[i].t = "undefined" THEN <<L("null")>> ELSE JSONStringify(s[i]))
       \o StringifyElements(s, i + 1)

\* members whose value is undefined are left out
StringifyMembers(m, i, first) ==
  IF i > Len(m) THEN <<>>
  ELSE IF m[i][2].t = "undefined" THEN StringifyMembers(m, i + 1, first)
  ELSE (IF first THEN <<>> ELSE <<P(",")>>)
       \o <<S(m[i][1]), P(":")>> \o JSONStringify(m[i][2])
       \o StringifyMembers(m, i + 1, FALSE)

\* JSON.stringify(value), for a value that is not itself undefined
JSONStringify(x) ==
  CASE x.t = "number" -> <<N(NumberToString(x.v))>>
    [] x.t = "string" -> <<S(x.v)>>
    [] x.t = "null" -> <<L("null")>>
    [] x.t = "boolean" -> <<L(IF x.v THEN "true" ELSE "false")>>
    [] x.t = "array" -> <<P("[")>> \o StringifyElements(x.v, 1) \o <<P("]")>>
    [] x.t = "object" ->
         <<P("{")>> \o StringifyMembers(x.v, 1, TRUE) \o <<P("}")>>
    [] OTHER -> <<>>

\* ------------------------------------------------------------------------
\* The dispatch table
\* ------------------------------------------------------------------------
\* own keys of the COMMANDS object literal
CommandNames ==
  {"exec.bt", "get.bts", "get.markets", "get.candles", "get.trades",
   "submit.bt", "bfx"}

\* function-valued members every object literal inherits from Object.prototype
PrototypeFunctions ==
  {"constructor", "toString", "toLocaleString", "valueOf", "hasOwnProperty",
   "isPrototypeOf", "propertyIsEnumerable", "__defineGetter__",
   "__defineSetter__", "__lookupGetter__", "__lookupSetter__"}

RECURSIVE ToPropertyKey(_)
RECURSIVE Join(_, _)

\* Array.prototype.join(','): null and undefined elements spell as ''
Join(s, i) ==
  IF i > Len(s) THEN ""
  ELSE (IF i > 1 THEN "," ELSE "")
       \o (IF s[i].t \in {"undefined", "null"} THEN "" ELSE ToPropertyKey(s[i]))
       \o Join(s, i + 1)

\* the string a value is converted to when it is used as a property key
ToPropertyKey(x) ==
  CASE x.t = "undefined" -> "undefined"
    [] x.t = "null" -> "null"
    [] x.t = "boolean" -> (IF x.v THEN "true" ELSE "false")
    [] x.t = "number" -> NumberToString(x.v)
    [] x.t = "string" -> x.v
    [] x.t = "array" -> Join(x.v, 1)
    [] OTHER -> "[object Object]"

\* COMMANDS[cmd]: an own key, else a member found on the prototype chain
COMMANDS(cmd) ==
  LET key == ToPropertyKey(cmd) IN
  IF key \in CommandNames THEN [kind |-> "command", name |-> key]
  ELSE IF key \in PrototypeFunctions THEN [kind |-> "builtin", name |-> key]
  ELSE IF key = "__proto__" THEN [kind |-> "object", name |-> key]
  ELSE [kind |-> "undefined", name |-> key]

_isFunction(h) == h.kind \in {"command", "builtin"}

\* An Object.prototype function called as handler(server, ws, msg, clientID)
\* has no receiver: all but Object() and toString() throw a TypeError.
BuiltinThrows(name) == name \notin {"constructor", "toString"}

\* ------------------------------------------------------------------------
\* Inputs
\* ------------------------------------------------------------------------
\* text frames a client may send
Frames ==
  { <<>>,
    <<Junk>>,
    <<P("[")>>,
    <<P("["), S("bfx"), P(",")>>,
    <<P("{"), P("}")>>,
    <<P("{"), S("bfx"), P(":"), N("1"), P("}")>>,
    <<N("1")>>,
    <<S("bfx")>>,
    <<L("null")>>,
    <<P("["), P("]")>>,
    <<P("["), S("nope"), P("]")>>,
    <<P("["), S("bfx"), P(","), N("1"), P("]")>>,
    <<P("["), S("get.bts"), P("]")>>,
    <<P("["), N("1"), P("]")>>,
    <<P("["), L("null"), P("]")>>,
    <<P("["), P("{"), P("}"), P("]")>>,
    <<P("["), P("["), S("bfx"), P("]"), P("]")>>,
    <<P("["), S("constructor"), P("]")>>,
    <<P("["), S("hasOwnProperty"), P("]")>>,
    <<P("["), S("__proto__"), P("]")>> }

\* payloads of the 'message' events an upstream session emits
UpstreamMsgs ==
  { Arr(<<Num(0), Str("hb")>>),
    Obj(<<<<"event", Str("info")>>, <<"version", Num(2)>>>>) }

\* the frames sent in the specification of the connection lifecycle
CoreFrames ==
  { <<>>,
    <<P("["), S("nope"), P("]")>>,
    <<P("["), S("bfx"), P(","), N("1"), P("]")>> }

\* values of the constructor's options
ProxyOptions == {Undefined, Bool(FALSE), Bool(TRUE)}
KeyOptions == {Undefined, Str("key")}
SecretOptions == {Undefined, Str("secret")}

\* JSON.parse of every inbound frame, evaluated once
ParsedFrames == [text \in Frames |-> JSONParse(text)]

\* the frame ['bfx', msg] of every upstream payload, evaluated once
ProxiedFrames ==
  [msg \in UpstreamMsgs |-> JSONStringify(Arr(<<Str("bfx"), msg>>))]

\* frame a command handler answers with
HandlerReply == Arr(<<Str("data"), Arr(<<>>)>>)

\* ------------------------------------------------------------------------
\* State
\* ------------------------------------------------------------------------
VARIABLES
  wssClients,       \* this.wssClients: client id -> socket
  bfxProxies,       \* this.bfxProxies: client id -> proxy session
  bfxProxyEnabled,  \* this.bfxProxyEnabled
  bfxProxyParams,   \* this.bfxProxyParams (apiKey, apiSecret)
  listening,        \* this.wss still accepts connections
  nonceLast,        \* last value nonce() returned
  sockets,          \* readyState of every socket accepted, in accept order
  listeners,        \* client id bound into each socket's handlers
  sent,             \* frames written to every socket, in order
  sessions,         \* every WSv2 session constructed, in construction order
  thrown,           \* exception that left the step just taken, or "none"
  called,           \* handler call made by the step just taken
  logged            \* last debug() line of the step just taken, or "none"

vars ==
  <<wssClients, bfxProxies, bfxProxyEnabled, bfxProxyParams, listening,
    nonceLast, sockets, listeners, sent, sessions, thrown, called, logged>>

config == <<bfxProxyEnabled, bfxProxyParams>>

NoCall ==
  [handler |-> "none", kind |-> "none", ws |-> 0, msg |-> Undefined,
   clientID |-> 0]

\* obj[key] of a registry, 0 standing for undefined
Lookup(registry, key) ==
  IF key \in DOMAIN registry THEN registry[key] ELSE 0

\* registry[key] = value
Put(registry, key, value) ==
  [k \in DOMAIN registry \cup {key} |->
     IF k = key THEN value ELSE registry[k]]

\* delete registry[key]
Delete(registry, key) ==
  [k \in DOMAIN registry \ {key} |-> registry[k]]

Init ==
  /\ wssClients = <<>>
  /\ bfxProxies = <<>>
  /\ bfxProxyEnabled \in ProxyOptions
  /\ bfxProxyParams \in [apiKey : KeyOptions, apiSecret : SecretOptions]
  /\ listening = TRUE
  /\ nonceLast = 0
  /\ sockets = <<>>
  /\ listeners = <<>>
  /\ sent = <<>>
  /\ sessions = <<>>
  /\ thrown = "none"
  /\ called = NoCall
  /\ logged = "none"

\* ------------------------------------------------------------------------
\* Collaborators of server.js
\* ------------------------------------------------------------------------
\* nonce() returning the clock reading as it is
nonce_Clock(now) == now

\* nonce(): strictly increasing, the clock reading when that is larger
nonce(now) == IF nonceLast < now THEN now ELSE nonceLast + 1

\* ws.send(text): the frame is appended to what the socket was sent
wsSend(frames, ws, text) == [frames EXCEPT ![ws] = Append(@, text)]

\* send(ws, msg) of ./wss/send: the message goes out JSON-encoded
send(frames, ws, msg) == wsSend(frames, ws, JSONStringify(msg))

\* new WSv2(params) followed by open(): a session that is connecting
NewSession(clientID) ==
  [clientID |-> clientID, state |-> "connecting", authed |-> FALSE,
   onceOpen |-> TRUE, opens |-> 1, auths |-> 0, closes |-> 0]

\* states a session may be in after close() was called on it: an open
\* session starts closing; one that is still connecting either does the
\* same or rejects the call and goes on connecting
AfterClose(state) ==
  CASE state = "open" -> {"closing"}
    [] state = "connecting" -> {"closing", "connecting"}
    [] OTHER -> {state}

\* proxy.close()
proxyClose(ss, proxy, state) ==
  [ss EXCEPT ![proxy].closes = @ + 1, ![proxy].state = state]

\* proxy.auth()
proxyAuth(ss, proxy) == [ss EXCEPT ![proxy].auths = @ + 1]

\* a command handler of ./cmds called as handler(server, ws, msg, clientID):
\* it answers on ws or not, and does not throw
Handler(name, ws, msg, clientID, reply) ==
  IF reply /\ ws # 0 /\ sockets[ws] = 1 /\ Len(sent[ws]) < MaxSent
  THEN send(sent, ws, HandlerReply)
  ELSE sent

\* ------------------------------------------------------------------------
\* Methods of DataServer
\* ------------------------------------------------------------------------
\* openBFXProxy without the call of proxy.open()
openBFXProxy_NoOpen(clientID) ==
  Append(sessions, [NewSession(clientID) EXCEPT !.opens = 0])

\* openBFXProxy(clientID): the session is constructed, its listeners are
\* attached and open() is called; the result is the list of sessions, the
\* new one last
openBFXProxy(clientID) == Append(sessions, NewSession(clientID))

\* onWSConnected that opens the proxy without storing it in bfxProxies
onWSConnected_NoRegister(ws, now) ==
  LET clientID == nonce(now) IN
  /\ logged' = "ws client connected"
  /\ nonceLast' = clientID
  /\ wssClients' = Put(wssClients, clientID, ws)
  /\ listeners' = Append(listeners, clientID)
  /\ IF Truthy(bfxProxyEnabled)
     THEN /\ sessions' = openBFXProxy(clientID)
          /\ bfxProxies' = bfxProxies
     ELSE UNCHANGED <<bfxProxies, sessions>>
  /\ sent' = send(Append(sent, <<>>), ws, Arr(<<Str("connected")>>))
  /\ thrown' = "none"
  /\ called' = NoCall

\* onWSConnected that sends no acknowledgement
onWSConnected_NoAck(ws, now) ==
  LET clientID == nonce(now) IN
  /\ logged' = "ws client connected"
  /\ nonceLast' = clientID
  /\ wssClients' = Put(wssClients, clientID, ws)
  /\ listeners' = Append(listeners, clientID)
  /\ IF Truthy(bfxProxyEnabled)
     THEN /\ sessions' = openBFXProxy(clientID)
          /\ bfxProxies' = Put(bfxProxies, clientID, Len(sessions) + 1)
     ELSE UNCHANGED <<bfxProxies, sessions>>
  /\ sent' = Append(sent, <<>>)
  /\ thrown' = "none"
  /\ called' = NoCall

\* onWSConnected that opens a proxy whatever the proxy option says
onWSConnected_AlwaysProxy(ws, now) ==
  LET clientID == nonce(now) IN
  /\ logged' = "ws client connected"
  /\ nonceLast' = clientID
  /\ wssClients' = Put(wssClients, clientID, ws)
  /\ listeners' = Append(listeners, clientID)
  /\ IF TRUE
     THEN /\ sessions' = openBFXProxy(clientID)
          /\ bfxProxies' = Put(bfxProxies, clientID, Len(sessions) + 1)
     ELSE UNCHANGED <<bfxProxies, sessions>>
  /\ sent' = send(Append(sent, <<>>), ws, Arr(<<Str("connected")>>))
  /\ thrown' = "none"
  /\ called' = NoCall

\* onWSConnected(ws), with the clock reading nonce() sees
onWSConnected(ws, now) ==
  LET clientID == nonce(now) IN
  /\ logged' = "ws client connected"
  /\ nonceLast' = clientID
  /\ wssClients' = Put(wssClients, clientID, ws)
  /\ listeners' = Append(listeners, clientID)
  /\ IF Truthy(bfxProxyEnabled)
     THEN /\ sessions' = openBFXProxy(clientID)
          /\ bfxProxies' = Put(bfxProxies, clientID, Len(sessions) + 1)
     ELSE UNCHANGED <<bfxProxies, sessions>>
  /\ sent' = send(Append(sent, <<>>), ws, Arr(<<Str("connected")>>))
  /\ thrown' = "none"
  /\ called' = NoCall

\* onWSDisconnected that leaves the entry of wssClients in place
onWSDisconnected_KeepClient(clientID) ==
  LET proxy == Lookup(bfxProxies, clientID) IN
  /\ logged' = "ws client %s disconnected"
  /\ wssClients' = wssClients
  /\ IF proxy # 0
     THEN /\ \E state \in AfterClose(sessions[proxy].state) :
               sessions' = proxyClose(sessions, proxy, state)
          /\ bfxProxies' = Delete(bfxProxies, clientID)
     ELSE UNCHANGED <<bfxProxies, sessions>>
  /\ thrown' = "none"
  /\ called' = NoCall
  /\ UNCHANGED <<nonceLast, listeners, sent>>

\* onWSDisconnected that closes the proxy and leaves its entry in place
onWSDisconnected_KeepProxy(clientID) ==
  LET proxy == Lookup(bfxProxies, clientID) IN
  /\ logged' = "ws client %s disconnected"
  /\ wssClients' = Delete(wssClients, clientID)
  /\ IF proxy # 0
     THEN /\ \E state \in AfterClose(sessions[proxy].state) :
               sessions' = proxyClose(sessions, proxy, state)
          /\ bfxProxies' = bfxProxies
     ELSE UNCHANGED <<bfxProxies, sessions>>
  /\ thrown' = "none"
  /\ called' = NoCall
  /\ UNCHANGED <<nonceLast, listeners, sent>>

\* onWSDisconnected that closes and forgets the proxy of every client
onWSDisconnected_CloseAll(clientID) ==
  LET proxy == Lookup(bfxProxies, clientID) IN
  /\ logged' = "ws client %s disconnected"
  /\ wssClients' = Delete(wssClients, clientID)
  /\ IF proxy # 0
     THEN /\ sessions' =
               [p \in DOMAIN sessions |->
                  IF \E id \in DOMAIN bfxProxies : bfxProxies[id] = p
                  THEN [sessions[p] EXCEPT !.closes = @ + 1, !.state = "closing"]
                  ELSE sessions[p]]
          /\ bfxProxies' = <<>>
     ELSE UNCHANGED <<bfxProxies, sessions>>
  /\ thrown' = "none"
  /\ called' = NoCall
  /\ UNCHANGED <<nonceLast, listeners, sent>>

\* onWSDisconnected(clientID)
onWSDisconnected(clientID) ==
  LET proxy == Lookup(bfxProxies, clientID) IN
  /\ logged' = "ws client %s disconnected"
  /\ wssClients' = Delete(wssClients, clientID)
  /\ IF proxy # 0
     THEN /\ \E state \in AfterClose(sessions[proxy].state) :
               sessions' = proxyClose(sessions, proxy, state)
          /\ bfxProxies' = Delete(bfxProxies, clientID)
     ELSE UNCHANGED <<bfxProxies, sessions>>
  /\ thrown' = "none"
  /\ called' = NoCall
  /\ UNCHANGED <<nonceLast, listeners, sent>>

\* onWSMessage that looks up a decoded value that is no array as a command
onWSMessage_NoArrayCheck(clientID, msgJSON) ==
  LET parsed == ParsedFrames[msgJSON]
      msg == IF parsed.ok THEN parsed.val ELSE Undefined
      cmd == IF msg.t # "array" THEN msg
             ELSE IF Len(msg.v) > 0 THEN msg.v[1] ELSE Undefined
      handler == COMMANDS(cmd)
      ws == Lookup(wssClients, clientID)
  IN
  /\ IF FALSE
     THEN /\ logged' = "ws client msg not an array: %j"
          /\ called' = NoCall
          /\ thrown' = "none"
          /\ sent' = sent
     ELSE IF ~_isFunction(handler)
     THEN /\ logged' = "received unknown command: %s"
          /\ called' = NoCall
          /\ thrown' = "none"
          /\ sent' = sent
     ELSE /\ logged' = "none"
          /\ called' = [handler |-> handler.name, kind |-> handler.kind,
                        ws |-> ws, msg |-> msg, clientID |-> clientID]
          /\ IF handler.kind = "command"
             THEN /\ \E reply \in BOOLEAN :
                       sent' = Handler(handler.name, ws, msg, clientID, reply)
                  /\ thrown' = "none"
             ELSE /\ sent' = sent
                  /\ thrown' =
                       IF BuiltinThrows(handler.name) THEN "TypeError"
                       ELSE "none"
  /\ UNCHANGED <<wssClients, bfxProxies, nonceLast, listeners, sessions>>

\* onWSMessage handing the handler the arguments of the command only
onWSMessage_ArgsOnly(clientID, msgJSON) ==
  LET parsed == ParsedFrames[msgJSON]
      msg == IF parsed.ok THEN parsed.val ELSE Undefined
      cmd == IF msg.t = "array" /\ Len(msg.v) > 0 THEN msg.v[1] ELSE Undefined
      handler == COMMANDS(cmd)
      ws == Lookup(wssClients, clientID)
  IN
  /\ IF msg.t # "array"
     THEN /\ logged' = "ws client msg not an array: %j"
          /\ called' = NoCall
          /\ thrown' = "none"
          /\ sent' = sent
     ELSE IF ~_isFunction(handler)
     THEN /\ logged' = "received unknown command: %s"
          /\ called' = NoCall
          /\ thrown' = "none"
          /\ sent' = sent
     ELSE /\ logged' = "none"
          /\ called' = [handler |-> handler.name, kind |-> handler.kind,
                        ws |-> ws, msg |-> Arr(Tail(msg.v)),
                        clientID |-> clientID]
          /\ IF handler.kind = "command"
             THEN /\ \E reply \in BOOLEAN :
                       sent' = Handler(handler.name, ws, Arr(Tail(msg.v)),
                                       clientID, reply)
                  /\ thrown' = "none"
             ELSE /\ sent' = sent
                  /\ thrown' =
                       IF BuiltinThrows(handler.name) THEN "TypeError"
                       ELSE "none"
  /\ UNCHANGED <<wssClients, bfxProxies, nonceLast, listeners, sessions>>

\* onWSMessage(clientID, msgJSON)
onWSMessage(clientID, msgJSON) ==
  LET parsed == ParsedFrames[msgJSON]
      msg == IF parsed.ok THEN parsed.val ELSE Undefined
      cmd == IF msg.t = "array" /\ Len(msg.v) > 0 THEN msg.v[1] ELSE Undefined
      handler == COMMANDS(cmd)
      ws == Lookup(wssClients, clientID)
  IN
  /\ IF msg.t # "array"
     THEN /\ logged' = "ws client msg not an array: %j"
          /\ called' = NoCall
          /\ thrown' = "none"
          /\ sent' = sent
     ELSE IF ~_isFunction(handler)
     THEN /\ logged' = "received unknown command: %s"
          /\ called' = NoCall
          /\ thrown' = "none"
          /\ sent' = sent
     ELSE /\ logged' = "none"
          /\ called' = [handler |-> handler.name, kind |-> handler.kind,
                        ws |-> ws, msg |-> msg, clientID |-> clientID]
          /\ IF handler.kind = "command"
             THEN /\ \E reply \in BOOLEAN :
                       sent' = Handler(handler.name, ws, msg, clientID, reply)
                  /\ thrown' = "none"
             ELSE /\ sent' = sent
                  /\ thrown' =
                       IF BuiltinThrows(handler.name) THEN "TypeError"
                       ELSE "none"
  /\ UNCHANGED <<wssClients, bfxProxies, nonceLast, listeners, sessions>>

\* the message listener forwarding the tag without the payload
proxyOnMessage_NoPayload(proxy, msg) ==
  LET clientID == sessions[proxy].clientID
      ws == Lookup(wssClients, clientID)
  IN
  /\ IF ws = 0
     THEN \* ws is undefined: reading ws.readyState throws
          /\ thrown' = "TypeError"
          /\ logged' = "none"
          /\ sent' = sent
     ELSE IF sockets[ws] # 1
     THEN /\ thrown' = "none"
          /\ logged' = "none"
          /\ sent' = sent
     ELSE /\ thrown' = "none"
          /\ logged' = "proxying message %j to client %s"
          /\ sent' = wsSend(sent, ws, JSONStringify(Arr(<<Str("bfx")>>)))
  /\ called' = NoCall
  /\ UNCHANGED <<wssClients, bfxProxies, nonceLast, listeners, sessions>>

\* proxyOnMessage without the readyState check
proxyOnMessage_NoStateCheck(proxy, msg) ==
  LET clientID == sessions[proxy].clientID
      ws == Lookup(wssClients, clientID)
  IN
  /\ IF ws = 0
     THEN /\ thrown' = "TypeError"
          /\ logged' = "none"
          /\ sent' = sent
     ELSE /\ thrown' = "none"
          /\ logged' = "proxying message %j to client %s"
          /\ sent' = wsSend(sent, ws, ProxiedFrames[msg])
  /\ called' = NoCall
  /\ UNCHANGED <<wssClients, bfxProxies, nonceLast, listeners, sessions>>

\* proxyOnMessage writing the frame ahead of the frame written last
proxyOnMessage_Reordered(proxy, msg) ==
  LET clientID == sessions[proxy].clientID
      ws == Lookup(wssClients, clientID)
  IN
  /\ IF ws = 0
     THEN /\ thrown' = "TypeError"
          /\ logged' = "none"
          /\ sent' = sent
     ELSE IF sockets[ws] # 1
     THEN /\ thrown' = "none"
          /\ logged' = "none"
          /\ sent' = sent
     ELSE /\ thrown' = "none"
          /\ logged' = "proxying message %j to client %s"
          /\ sent' = [sent EXCEPT ![ws] =
                        SubSeq(@, 1, Len(@) - 1)
                          \o <<ProxiedFrames[msg]>>
                          \o SubSeq(@, Len(@), Len(@))]
  /\ called' = NoCall
  /\ UNCHANGED <<wssClients, bfxProxies, nonceLast, listeners, sessions>>

\* proxy.on('message', ...) of the session constructed for clientID
proxyOnMessage(proxy, msg) ==
  LET clientID == sessions[proxy].clientID
      ws == Lookup(wssClients, clientID)
  IN
  /\ IF ws = 0
     THEN \* ws is undefined: reading ws.readyState throws
          /\ thrown' = "TypeError"
          /\ logged' = "none"
          /\ sent' = sent
     ELSE IF sockets[ws] # 1
     THEN /\ thrown' = "none"
          /\ logged' = "none"
          /\ sent' = sent
     ELSE /\ thrown' = "none"
          /\ logged' = "proxying message %j to client %s"
          /\ sent' = wsSend(sent, ws, ProxiedFrames[msg])
  /\ called' = NoCall
  /\ UNCHANGED <<wssClients, bfxProxies, nonceLast, listeners, sessions>>

\* proxyOnOpen with the credentials check registered with on() for once()
proxyOnOpen_EveryOpen(proxy) ==
  LET opened == [sessions EXCEPT ![proxy].state = "open",
                                 ![proxy].onceOpen = FALSE]
  IN
  /\ logged' = "bfx proxy connection opened"
  /\ sessions' =
       IF /\ Truthy(bfxProxyParams.apiKey)
          /\ Truthy(bfxProxyParams.apiSecret)
       THEN proxyAuth(opened, proxy)
       ELSE opened
  /\ thrown' = "none"
  /\ called' = NoCall
  /\ UNCHANGED <<wssClients, bfxProxies, nonceLast, listeners, sent>>

\* proxy.on('open', ...) and proxy.once('open', ...), run on one 'open' event
proxyOnOpen(proxy) ==
  LET opened == [sessions EXCEPT ![proxy].state = "open",
                                 ![proxy].onceOpen = FALSE]
  IN
  /\ logged' = "bfx proxy connection opened"
  /\ sessions' =
       IF /\ sessions[proxy].onceOpen
          /\ Truthy(bfxProxyParams.apiKey)
          /\ Truthy(bfxProxyParams.apiSecret)
       THEN proxyAuth(opened, proxy)
       ELSE opened
  /\ thrown' = "none"
  /\ called' = NoCall
  /\ UNCHANGED <<wssClients, bfxProxies, nonceLast, listeners, sent>>

\* proxy.on('auth', ...)
proxyOnAuth(proxy) ==
  /\ logged' = "bfx proxy connection authenticated"
  /\ sessions' = [sessions EXCEPT ![proxy].authed = TRUE]
  /\ thrown' = "none"
  /\ called' = NoCall
  /\ UNCHANGED <<wssClients, bfxProxies, nonceLast, listeners, sent>>

\* proxy.on('close', ...)
proxyOnClose(proxy) ==
  /\ logged' = "bfx proxy connection closed"
  /\ sessions' = [sessions EXCEPT ![proxy].state = "closed"]
  /\ thrown' = "none"
  /\ called' = NoCall
  /\ UNCHANGED <<wssClients, bfxProxies, nonceLast, listeners, sent>>

\* close() closing every proxy session and emptying both registries
close_Cascade ==
  /\ listening' = FALSE
  /\ logged' = "none"
  /\ thrown' = "none"
  /\ called' = NoCall
  /\ sessions' =
       [proxy \in DOMAIN sessions |->
          IF \E id \in DOMAIN bfxProxies : bfxProxies[id] = proxy
          THEN [sessions[proxy] EXCEPT !.closes = @ + 1]
          ELSE sessions[proxy]]
  /\ wssClients' = <<>>
  /\ bfxProxies' = <<>>
  /\ UNCHANGED <<nonceLast, listeners, sent>>

\* close()
close ==
  /\ listening' = FALSE
  /\ logged' = "none"
  /\ thrown' = "none"
  /\ called' = NoCall
  /\ UNCHANGED <<wssClients, bfxProxies, nonceLast, listeners, sent, sessions>>

\* ------------------------------------------------------------------------
\* Events
\* ------------------------------------------------------------------------
Sockets == 1..Len(sockets)
Sessions == 1..Len(sessions)

\* the listening server emits 'connection' with a new, open socket
Connection(now) ==
  /\ listening
  /\ Len(sockets) < MaxConns
  /\ sockets' = Append(sockets, 1)
  /\ onWSConnected(Len(sockets) + 1, now)
  /\ UNCHANGED <<listening, config>>

\* a socket starts its closing handshake: readyState 1 -> 2
SocketClosing(ws) ==
  /\ sockets[ws] = 1
  /\ sockets' = [sockets EXCEPT ![ws] = 2]
  /\ logged' = "none"
  /\ thrown' = "none"
  /\ called' = NoCall
  /\ UNCHANGED <<wssClients, bfxProxies, nonceLast, listeners, sent,
                 sessions, listening, config>>

\* a socket emits 'close': readyState 3, then the handler bound at accept
SocketClose(ws) ==
  /\ sockets[ws] \in {1, 2}
  /\ sockets' = [sockets EXCEPT ![ws] = 3]
  /\ onWSDisconnected(listeners[ws])
  /\ UNCHANGED <<listening, config>>

\* the disconnect handler is run once more for a socket already closed
SocketCloseAgain(ws) ==
  /\ sockets[ws] = 3
  /\ onWSDisconnected(listeners[ws])
  /\ UNCHANGED <<sockets, listening, config>>

\* a socket emits 'message'
SocketMessage(ws, msgJSON) ==
  /\ sockets[ws] \in {1, 2}
  /\ onWSMessage(listeners[ws], msgJSON)
  /\ UNCHANGED <<sockets, listening, config>>

\* the socket a message of the session would be written to, if there is
\* one, has been sent fewer than n frames
Room(proxy, n) ==
  LET ws == Lookup(wssClients, sessions[proxy].clientID) IN
  IF ws = 0 THEN TRUE
  ELSE IF sockets[ws] # 1 THEN TRUE
  ELSE Len(sent[ws]) < n

\* a session emits 'message': it has opened and is open still, or is
\* closing with data in flight
UpstreamMessage(proxy, msg) ==
  /\ sessions[proxy].state \in {"open", "closing"}
  /\ ~sessions[proxy].onceOpen
  /\ proxyOnMessage(proxy, msg)
  /\ UNCHANGED <<sockets, listening, config>>

\* a connecting session emits 'open'
UpstreamOpen(proxy) ==
  /\ sessions[proxy].state = "connecting"
  /\ proxyOnOpen(proxy)
  /\ UNCHANGED <<sockets, listening, config>>

\* a session that had opened and lost its upstream without close() being
\* called on it connects again and emits 'open' once more
UpstreamReopen(proxy) ==
  /\ sessions[proxy].state = "closed"
  /\ sessions[proxy].closes = 0
  /\ ~sessions[proxy].onceOpen
  /\ proxyOnOpen(proxy)
  /\ UNCHANGED <<sockets, listening, config>>

\* a session that asked for authentication emits 'auth'
UpstreamAuth(proxy) ==
  /\ sessions[proxy].state = "open"
  /\ sessions[proxy].auths > 0
  /\ ~sessions[proxy].authed
  /\ proxyOnAuth(proxy)
  /\ UNCHANGED <<sockets, listening, config>>

\* a session emits 'close': asked for, or the upstream went away
UpstreamClose(proxy) ==
  /\ sessions[proxy].state # "closed"
  /\ proxyOnClose(proxy)
  /\ UNCHANGED <<sockets, listening, config>>

\* close() is called; the listening server may terminate its sockets
ServerClose(terminate) ==
  /\ listening
  /\ close
  /\ sockets' = [ws \in Sockets |->
                   IF terminate /\ sockets[ws] = 1 THEN 2 ELSE sockets[ws]]
  /\ UNCHANGED config

\* the steps that do not depend on which frames clients send
Lifecycle ==
  \/ \E now \in 0..MaxNow : Connection(now)
  \/ \E ws \in Sockets : SocketClosing(ws)
  \/ \E ws \in Sockets : SocketClose(ws)
  \/ \E ws \in Sockets : SocketCloseAgain(ws)
  \/ \E proxy \in Sessions, msg \in UpstreamMsgs :
       Room(proxy, MaxSent) /\ UpstreamMessage(proxy, msg)
  \/ \E proxy \in Sessions : UpstreamOpen(proxy)
  \/ \E proxy \in Sessions : UpstreamReopen(proxy)
  \/ \E proxy \in Sessions : UpstreamAuth(proxy)
  \/ \E proxy \in Sessions : UpstreamClose(proxy)
  \/ \E terminate \in BOOLEAN : ServerClose(terminate)

\* clients send an undecodable frame, an unknown command or a command
Next ==
  \/ Lifecycle
  \/ \E ws \in Sockets, msgJSON \in CoreFrames : SocketMessage(ws, msgJSON)

Spec == Init /\ [][Next]_vars

\* Dispatch of inbound frames: clients connect, send every frame of Frames
\* and disconnect, their sessions open and close; no credentials
InitDispatch ==
  /\ Init
  /\ bfxProxyParams = [apiKey |-> Undefined, apiSecret |-> Undefined]

NextDispatch ==
  \/ \E now \in 0..MaxNow : Connection(now)
  \/ \E ws \in Sockets : SocketClosing(ws)
  \/ \E ws \in Sockets : SocketClose(ws)
  \/ \E proxy \in Sessions : UpstreamOpen(proxy)
  \/ \E proxy \in Sessions : UpstreamClose(proxy)
  \/ \E ws \in Sockets, msgJSON \in Frames : SocketMessage(ws, msgJSON)

SpecDispatch == InitDispatch /\ [][NextDispatch]_vars

\* Order of frames: proxying enabled, no credentials; clients connect, send
\* commands and disconnect, sessions open, close and emit messages until
\* the socket has been sent MaxOrder frames
OrderFrames ==
  {<<P("["), S("bfx"), P(","), N("1"), P("]")>>,
   <<P("["), S("get.bts"), P("]")>>}

InitOrder ==
  /\ InitDispatch
  /\ bfxProxyEnabled = Bool(TRUE)

NextOrder ==
  \/ \E now \in 0..MaxNow : Connection(now)
  \/ \E ws \in Sockets : SocketClosing(ws)
  \/ \E ws \in Sockets : SocketClose(ws)
  \/ \E proxy \in Sessions : UpstreamOpen(proxy)
  \/ \E proxy \in Sessions : UpstreamClose(proxy)
  \/ \E proxy \in Sessions, msg \in UpstreamMsgs :
       Room(proxy, MaxOrder) /\ UpstreamMessage(proxy, msg)
  \/ \E ws \in Sockets, msgJSON \in OrderFrames : SocketMessage(ws, msgJSON)

SpecOrder == InitOrder /\ [][NextOrder]_vars

\* ------------------------------------------------------------------------
\* Vocabulary of the properties
\* ------------------------------------------------------------------------
\* the socket a session was constructed for
OwnerSocket(proxy) ==
  CHOOSE ws \in Sockets : listeners[ws] = sessions[proxy].clientID

\* text is the JSON encoding of value
IsFrame(text, value) == JSONParse(text) = [ok |-> TRUE, val |-> value]

\* the step wrote exactly one frame, the encoding of value, to socket ws
SentOnlyTo(ws, value) ==
  /\ Len(sent'[ws]) = Len(sent[ws]) + 1
  /\ SubSeq(sent'[ws], 1, Len(sent[ws])) = sent[ws]
  /\ IsFrame(sent'[ws][Len(sent'[ws])], value)
  /\ \A other \in Sockets \ {ws} : sent'[other] = sent[other]

\* both credentials are configured
Credentials ==
  Truthy(bfxProxyParams.apiKey) /\ Truthy(bfxProxyParams.apiSecret)

\* the step called close() on no session
NoCloseCalled ==
  \A proxy \in Sessions : sessions'[proxy].closes = sessions[proxy].closes

\* frames that are not JSON, or JSON that is not an array
UndecodableFrames ==
  {text \in Frames :
     ~ParsedFrames[text].ok \/ ParsedFrames[text].val.t # "array"}

\* frames that decode to an array not led by a name of the dispatch table
UnknownCommandFrames ==
  {text \in Frames \ UndecodableFrames :
     LET msg == ParsedFrames[text].val IN
     \/ Len(msg.v) = 0
     \/ msg.v[1] \notin {Str(name) : name \in CommandNames}}

\* frames that decode to an array led by a name of the dispatch table
CommandFrames == (Frames \ UndecodableFrames) \ UnknownCommandFrames

\* frames that decode to an array whose first element is not a string
NonStringFrames ==
  {text \in Frames \ UndecodableFrames :
     LET msg == ParsedFrames[text].val IN
     Len(msg.v) > 0 /\ msg.v[1].t # "string"}

\* ------------------------------------------------------------------------
\* Properties
\* ------------------------------------------------------------------------
\* C1: the Client Registry holds exactly the clients accepted and not yet
\* disconnected, each under the id bound at accept and mapped to its socket.
C1_RegistryExact ==
  /\ DOMAIN wssClients = {listeners[ws] : ws \in {w \in Sockets : sockets[w] # 3}}
  /\ \A ws \in Sockets :
       sockets[ws] # 3 => Lookup(wssClients, listeners[ws]) = ws

C1_Witness ==
  \E a, b \in Sockets :
    /\ sockets[a] = 3
    /\ sockets[b] # 3
    /\ listeners[a] \notin DOMAIN wssClients
    /\ listeners[b] \in DOMAIN wssClients

\* C2: with proxying enabled the Proxy Registry has an entry for an id
\* exactly when the Client Registry has one, and the entry is the one
\* session constructed for that id.
C2_ProxyIffClient ==
  Truthy(bfxProxyEnabled) =>
    /\ DOMAIN bfxProxies = DOMAIN wssClients
    /\ \A id \in DOMAIN bfxProxies :
         /\ bfxProxies[id] \in Sessions
         /\ {proxy \in Sessions : sessions[proxy].clientID = id}
              = {bfxProxies[id]}

C2_Witness ==
  /\ Truthy(bfxProxyEnabled)
  /\ Cardinality(DOMAIN bfxProxies) = 1
  /\ \E ws \in Sockets : sockets[ws] = 3

\* C3: the disconnect of a client with a proxy session calls close() on that
\* session once and on no other; a repeated disconnect changes neither
\* registry and calls close() on nothing; no session is closed twice.
C3_CloseOnce ==
  [][/\ \A proxy \in Sessions : sessions'[proxy].closes <= 1
     /\ \A ws \in Sockets :
          SocketClose(ws) =>
            \A proxy \in Sessions :
              sessions'[proxy].closes =
                IF sessions[proxy].clientID = listeners[ws]
                THEN sessions[proxy].closes + 1
                ELSE sessions[proxy].closes
     /\ \A ws \in Sockets :
          SocketCloseAgain(ws) =>
            /\ UNCHANGED <<wssClients, bfxProxies>>
            /\ NoCloseCalled]_vars

C3_Witness ==
  \E ws \in Sockets, proxy \in Sessions :
    /\ sockets[ws] = 3
    /\ sessions[proxy].clientID = listeners[ws]
    /\ sessions[proxy].closes = 1
    /\ logged = "ws client %s disconnected"

\* C4: an upstream message delivered after its client's disconnect handler
\* has run is dropped: nothing is thrown, nothing is sent, the registries
\* stay as they are.
C4_DroppedAfterDisconnect ==
  [][\A proxy \in Sessions, msg \in UpstreamMsgs :
       (/\ sessions[proxy].clientID \notin DOMAIN wssClients
        /\ UpstreamMessage(proxy, msg))
       => /\ thrown' = "none"
          /\ sent' = sent
          /\ UNCHANGED <<wssClients, bfxProxies>>]_vars

\* C5: an upstream message M of a session whose client is registered with an
\* open socket puts exactly one frame ["bfx", M] on that socket and nothing
\* on any other, authenticated or not, credentials or none.
C5_Forwarded ==
  [][\A proxy \in Sessions, msg \in UpstreamMsgs :
       (/\ sessions[proxy].clientID \in DOMAIN wssClients
        /\ sockets[OwnerSocket(proxy)] = 1
        /\ UpstreamMessage(proxy, msg))
       => SentOnlyTo(OwnerSocket(proxy), Arr(<<Str("bfx"), msg>>))]_vars

C5_Witness ==
  \E ws \in Sockets, proxy \in Sessions, msg \in UpstreamMsgs :
    /\ logged = "proxying message %j to client %s"
    /\ sessions[proxy].clientID = listeners[ws]
    /\ ~sessions[proxy].authed
    /\ Len(sent[ws]) = 2
    /\ IsFrame(sent[ws][2], Arr(<<Str("bfx"), msg>>))

\* C6: with proxying enabled two registered clients have different
\* sessions; the disconnect of one leaves the other's two registry entries
\* and its session as they were, and the other's upstream messages are
\* still forwarded to it afterwards.
C6_Independent ==
  [][Truthy(bfxProxyEnabled) =>
       /\ \A a, b \in DOMAIN bfxProxies :
            a # b => bfxProxies[a] # bfxProxies[b]
       /\ \A a, b \in DOMAIN bfxProxies' :
            a # b => bfxProxies'[a] # bfxProxies'[b]
       /\ \A a \in Sockets :
            SocketClose(a) =>
              \A b \in Sockets \ {a} :
                sockets[b] # 3 =>
                  LET id == listeners[b]
                      proxy == Lookup(bfxProxies, id)
                  IN /\ proxy # 0
                     /\ Lookup(wssClients', id) = b
                     /\ Lookup(bfxProxies', id) = proxy
                     /\ sessions'[proxy] = sessions[proxy]
       /\ \A proxy \in Sessions, msg \in UpstreamMsgs :
            (/\ \E a \in Sockets : sockets[a] = 3
             /\ sessions[proxy].clientID \in DOMAIN wssClients
             /\ sockets[OwnerSocket(proxy)] = 1
             /\ UpstreamMessage(proxy, msg))
            => SentOnlyTo(OwnerSocket(proxy), Arr(<<Str("bfx"), msg>>))]_vars

C6_Witness ==
  \E a, b \in Sockets, proxy \in Sessions, msg \in UpstreamMsgs :
    /\ sockets[a] = 3
    /\ sockets[b] = 1
    /\ Lookup(bfxProxies, listeners[b]) = proxy
    /\ sessions[proxy].closes = 0
    /\ logged = "proxying message %j to client %s"
    /\ IsFrame(sent[b][Len(sent[b])], Arr(<<Str("bfx"), msg>>))

\* C7: every accepted socket was sent ["connected"] as its first frame and
\* was sent it only once, whatever else it was sent.
C7_ConnectedFirst ==
  \A ws \in Sockets :
    /\ Len(sent[ws]) >= 1
    /\ IsFrame(sent[ws][1], Arr(<<Str("connected")>>))
    /\ \A i \in 2..Len(sent[ws]) : sent[ws][i] # sent[ws][1]

C7_Witness ==
  \E a, b \in Sockets :
    /\ Len(sent[a]) = 2
    /\ IsFrame(sent[a][2], HandlerReply)
    /\ Len(sent[b]) = 2
    /\ \E msg \in UpstreamMsgs : IsFrame(sent[b][2], Arr(<<Str("bfx"), msg>>))

\* C8: a frame that decodes to an array not led by a command name makes
\* onWSMessage call no handler, send nothing and throw nothing, and leaves
\* both registries as they were.
C8_UnknownIgnored ==
  [][\A ws \in Sockets, text \in UnknownCommandFrames :
       SocketMessage(ws, text) =>
         /\ called' = NoCall
         /\ thrown' = "none"
         /\ sent' = sent
         /\ UNCHANGED <<wssClients, bfxProxies>>]_vars

\* C9: a frame that is not JSON, or is JSON but no array, makes onWSMessage
\* call no handler, send nothing and throw nothing, and leaves every client
\* registered and every proxy session as it was.
C9_UndecodableDropped ==
  [][\A ws \in Sockets, text \in UndecodableFrames :
       SocketMessage(ws, text) =>
         /\ called' = NoCall
         /\ thrown' = "none"
         /\ sent' = sent
         /\ UNCHANGED <<wssClients, bfxProxies, sessions>>]_vars

C9_Witness ==
  /\ logged = "ws client msg not an array: %j"
  /\ Cardinality(DOMAIN wssClients) = 2
  /\ Cardinality(DOMAIN bfxProxies) = 2

\* C10: with proxying disabled the Proxy Registry stays empty and no
\* session is ever constructed, so that a disconnect has nothing to close.
C10_NoProxyWhenDisabled ==
  ~Truthy(bfxProxyEnabled) =>
    /\ DOMAIN bfxProxies = {}
    /\ Sessions = {}

C10_Witness ==
  /\ ~Truthy(bfxProxyEnabled)
  /\ \E a, b \in Sockets : sockets[a] = 3 /\ sockets[b] # 3

\* C11: a session calls auth() only in the step of its first 'open' event,
\* and there exactly when apiKey and apiSecret are both configured; a later
\* 'open' of the same session calls auth() on nothing, so that auth() is
\* called at most once per session; without credentials it is never called,
\* while every session has still been constructed and opened.
C11_AuthOnFirstOpen ==
  [][\A proxy \in Sessions :
       /\ sessions'[proxy].auths <= 1
       /\ sessions'[proxy].auths # sessions[proxy].auths
            => /\ UpstreamOpen(proxy)
               /\ Credentials
       /\ (UpstreamOpen(proxy) /\ sessions[proxy].onceOpen)
            => sessions'[proxy].auths =
                 sessions[proxy].auths + (IF Credentials THEN 1 ELSE 0)
       /\ UpstreamReopen(proxy)
            => sessions'[proxy].auths = sessions[proxy].auths
       /\ ~Credentials
            => /\ sessions'[proxy].auths = 0
               /\ sessions'[proxy].opens = 1]_vars

C11_Witness ==
  \E proxy \in Sessions :
    /\ logged = "bfx proxy connection opened"
    /\ sessions[proxy].state = "open"
    /\ sessions[proxy].authed
    /\ sessions[proxy].auths = 1

\* C12: a session whose client id is not in the Client Registry has had
\* close() called on it, and a session on which close() has been called,
\* connecting or open at the time, calls auth() no more and has none of its
\* messages written to a socket.
C12_ClosedWithOwner ==
  [][\A proxy \in Sessions :
       /\ sessions[proxy].clientID \notin DOMAIN wssClients'
            => sessions'[proxy].closes >= 1
       /\ sessions[proxy].closes >= 1
            => /\ sessions'[proxy].auths = sessions[proxy].auths
               /\ \A msg \in UpstreamMsgs :
                    UpstreamMessage(proxy, msg) => sent' = sent]_vars

\* C13: each frame of a client has its handler called in the step the
\* frame arrives, with that frame; each message of a session is written once
\* and last to its client's socket in the step it is emitted; and no step,
\* of this client or another, removes, repeats or reorders what a socket
\* was sent before.
C13_InOrder ==
  [][/\ \A ws \in Sockets :
          /\ Len(sent'[ws]) \in {Len(sent[ws]), Len(sent[ws]) + 1}
          /\ SubSeq(sent'[ws], 1, Len(sent[ws])) = sent[ws]
     /\ \A ws \in Sockets, text \in OrderFrames :
          SocketMessage(ws, text) =>
            /\ called'.msg = ParsedFrames[text].val
            /\ called'.handler = ParsedFrames[text].val.v[1].v
            /\ called'.clientID = listeners[ws]
     /\ \A proxy \in Sessions, msg \in UpstreamMsgs :
          (/\ sessions[proxy].clientID \in DOMAIN wssClients
           /\ sockets[OwnerSocket(proxy)] = 1
           /\ UpstreamMessage(proxy, msg))
          => LET ws == OwnerSocket(proxy) IN
             /\ sent'[ws] = Append(sent[ws], sent'[ws][Len(sent'[ws])])
             /\ IsFrame(sent'[ws][Len(sent'[ws])], Arr(<<Str("bfx"), msg>>))
             /\ \A other \in Sockets \ {ws} : sent'[other] = sent[other]]_vars

C13_Witness ==
  \E a, b \in Sockets, m1, m2 \in UpstreamMsgs :
    /\ m1 # m2
    /\ Len(sent[a]) = 3
    /\ IsFrame(sent[a][2], Arr(<<Str("bfx"), m1>>))
    /\ IsFrame(sent[a][3], Arr(<<Str("bfx"), m2>>))
    /\ Len(sent[b]) = 3
    /\ IsFrame(sent[b][2], Arr(<<Str("bfx"), m2>>))
    /\ IsFrame(sent[b][3], Arr(<<Str("bfx"), m1>>))

\* C14: a frame that decodes to an array led by a command name makes
\* onWSMessage call the handler of that name, and that one call only, in the
\* same step, with the socket registered under the sender's id, the whole
\* decoded array and the sender's id; nothing is thrown, the registries stay
\* as they are, and the only frame written, if any, is the handler's own.
C14_HandlerCalled ==
  [][\A ws \in Sockets, text \in CommandFrames :
       SocketMessage(ws, text) =>
         /\ called' = [handler |-> ParsedFrames[text].val.v[1].v,
                       kind |-> "command",
                       ws |-> ws,
                       msg |-> ParsedFrames[text].val,
                       clientID |-> listeners[ws]]
         /\ Lookup(wssClients, listeners[ws]) = ws
         /\ thrown' = "none"
         /\ sent' = sent \/ SentOnlyTo(ws, HandlerReply)
         /\ UNCHANGED <<wssClients, bfxProxies>>]_vars

C14_Witness ==
  \E ws \in Sockets :
    /\ called.handler = "bfx"
    /\ called.ws = ws
    /\ called.clientID = listeners[ws]
    /\ Len(called.msg.v) = 2
    /\ called.msg.v[1] = Str("bfx")
    /\ sockets[ws] = 2
    /\ Len(sent[ws]) = 1

\* C15: a step that changes the Client Registry or the Proxy Registry is
\* the accept of a connection or the 'close' of a socket; inbound frames,
\* the 'message', 'open', 'auth' and 'close' events of a session and the
\* server's close() change neither, and close() calls close() on no session.
C15_RegistriesOwned ==
  [][/\ (wssClients' # wssClients \/ bfxProxies' # bfxProxies)
          => \/ \E now \in 0..MaxNow : Connection(now)
             \/ \E ws \in Sockets : SocketClose(ws)
     /\ \A ws \in Sockets, text \in CoreFrames :
          SocketMessage(ws, text) => UNCHANGED <<wssClients, bfxProxies>>
     /\ \A proxy \in Sessions :
          (\/ \E msg \in UpstreamMsgs : UpstreamMessage(proxy, msg)
           \/ UpstreamOpen(proxy)
           \/ UpstreamReopen(proxy)
           \/ UpstreamAuth(proxy)
           \/ UpstreamClose(proxy))
          => UNCHANGED <<wssClients, bfxProxies>>
     /\ (\E terminate \in BOOLEAN : ServerClose(terminate))
          => /\ UNCHANGED <<wssClients, bfxProxies>>
             /\ NoCloseCalled]_vars

C15_Witness ==
  /\ ~listening
  /\ logged = "none"
  /\ Cardinality(DOMAIN wssClients) = 2
  /\ Cardinality(DOMAIN bfxProxies) = 2
  /\ \A proxy \in Sessions :
       sessions[proxy].closes = 0 /\ sessions[proxy].state = "open"

\* C16: the sockets that are registered have different client ids; the id
\* an accept assigns is a key of neither registry before, so the accept
\* leaves every entry that was there as it was; and the disconnect of one
\* socket leaves every other registered socket under its id.
C16_UniqueIds ==
  [][/\ \A a, b \in Sockets :
          (a # b /\ sockets[a] # 3 /\ sockets[b] # 3)
            => listeners[a] # listeners[b]
     /\ Len(listeners') > Len(listeners)
          => LET id == listeners'[Len(listeners')] IN
             /\ id \notin DOMAIN wssClients
             /\ id \notin DOMAIN bfxProxies
             /\ \A other \in DOMAIN wssClients :
                  Lookup(wssClients', other) = wssClients[other]
             /\ \A other \in DOMAIN bfxProxies :
                  Lookup(bfxProxies', other) = bfxProxies[other]
     /\ \A a \in Sockets :
          sockets[a] # 3 /\ sockets'[a] = 3
            => \A b \in Sockets \ {a} :
                 sockets[b] # 3 => Lookup(wssClients', listeners[b]) = b]_vars

C16_Witness ==
  \E a, b \in Sockets :
    /\ listeners[a] = MaxNow
    /\ listeners[b] = MaxNow + 1
    /\ Lookup(wssClients, listeners[a]) = a
    /\ Lookup(wssClients, listeners[b]) = b
    /\ Truthy(bfxProxyEnabled)
    /\ Lookup(bfxProxies, listeners[a]) # Lookup(bfxProxies, listeners[b])

\* C17: a message of a session whose client is registered with a socket
\* that is not open (readyState 2) writes no frame to any socket, throws
\* nothing and changes neither registry; and no later step writes to a
\* socket that is not open, so the message is not delivered afterwards.
C17_DroppedWhileClosing ==
  [][/\ \A proxy \in Sessions, msg \in UpstreamMsgs :
          (/\ sessions[proxy].clientID \in DOMAIN wssClients
           /\ sockets[OwnerSocket(proxy)] # 1
           /\ UpstreamMessage(proxy, msg))
          => /\ sent' = sent
             /\ thrown' = "none"
             /\ UNCHANGED <<wssClients, bfxProxies>>
     /\ \A ws \in Sockets :
          sockets[ws] # 1 => /\ sent'[ws] = sent[ws]
                             /\ sockets'[ws] # 1]_vars

C17_Witness ==
  \E ws \in Sockets, proxy \in Sessions :
    /\ sockets[ws] = 2
    /\ Lookup(wssClients, listeners[ws]) = ws
    /\ Lookup(bfxProxies, listeners[ws]) = proxy
    /\ sessions[proxy].state = "open"
    /\ ~sessions[proxy].onceOpen
    /\ Len(sent[ws]) = 1
    /\ logged = "none"
    /\ thrown = "none"
    /\ called = NoCall
    /\ listening

\* C18: with proxying enabled there is one session for each connection
\* accepted, constructed in the accept step for the id bound there, and
\* open() has been called on it once; no other step constructs a session or
\* calls open() on one, whether close() was called on it or not.
C18_OneSessionOneOpen ==
  [][/\ Truthy(bfxProxyEnabled) =>
          /\ Len(sessions') = Len(sockets')
          /\ \A proxy \in 1..Len(sessions') :
               /\ sessions'[proxy].opens = 1
               /\ sessions'[proxy].clientID = listeners'[proxy]
     /\ Len(sessions') # Len(sessions) =>
          /\ Len(sessions') = Len(sessions) + 1
          /\ Len(sockets') = Len(sockets) + 1
     /\ \A proxy \in Sessions :
          sessions'[proxy].opens = sessions[proxy].opens]_vars

C18_Witness ==
  \E a, b \in Sessions :
    /\ sessions[a].closes = 1
    /\ sessions[a].state = "closed"
    /\ sessions[a].opens = 1
    /\ sockets[OwnerSocket(a)] = 3
    /\ sessions[b].closes = 0
    /\ sessions[b].state = "open"
    /\ sessions[b].opens = 1
    /\ Lookup(bfxProxies, sessions[b].clientID) = b

\* C19: a frame that decodes to an array whose first element is a number,
\* null, an object or an array makes onWSMessage call no handler and write
\* no frame.
C19_NonStringUnknown ==
  [][\A ws \in Sockets, text \in NonStringFrames :
       SocketMessage(ws, text) =>
         /\ called' = NoCall
         /\ sent' = sent]_vars
====
